---- MODULE Spec2Model ----
(***************************************************************************)
(* PantryChef (app.py): the "Find Recipes!" handler of the Streamlit page. *)
(* Text is a sequence of one-character strings; an ingredient token is a   *)
(* text; the catalog is the sequence of rows of recipes_df.                *)
(***************************************************************************)
EXTENDS Integers, Sequences, FiniteSets, TLC

VARIABLES recipes_df, model, user_input, button, messages, user_ingredients,
          candidates_df, features_df, sorted_recipes, display

vars == <<recipes_df, model, user_input, button, messages, user_ingredients,
          candidates_df, features_df, sorted_recipes, display>>

\* ---------------------------------------------------------------- bounds
MaxLen == 2            \* longest text typed into the text area
MaxRecipes == 2        \* most rows of the catalog

\* ------------------------------------------------------- program constants
TopK == 5              \* sorted_recipes.head(5)
MaxRating == 5         \* ratings are shown "/ 5.0"

\* ------------------------------------------------------------- input sets
Chars == {"A", " ", ","}
Ratings == {0, MaxRating}
Complexities == {1}
Scores == {40, 90}

\* ------------------------------------------------------------ str methods
\* str.lower on one character
LowerChar(c) == IF c = "A" THEN "a" ELSE c

\* str.lower
Lower(s) == [i \in 1..Len(s) |-> LowerChar(s[i])]

IsSpace(c) == c = " "

RECURSIVE LStrip(_)
LStrip(s) == IF s # <<>> /\ IsSpace(Head(s)) THEN LStrip(Tail(s)) ELSE s

RECURSIVE RStrip(_)
RStrip(s) ==
    IF s # <<>> /\ IsSpace(s[Len(s)]) THEN RStrip(SubSeq(s, 1, Len(s) - 1))
    ELSE s

\* str.strip
Strip(s) == RStrip(LStrip(s))

\* str.split(','): the pieces between the commas, always at least one piece
RECURSIVE Split(_)
Split(s) ==
    IF \A i \in 1..Len(s) : s[i] # ","
    THEN <<s>>
    ELSE LET k == CHOOSE i \in 1..Len(s) :
                      s[i] = "," /\ \A j \in 1..(i - 1) : s[j] # ","
         IN  <<SubSeq(s, 1, k - 1)>> \o Split(SubSeq(s, k + 1, Len(s)))

Range(f) == {f[i] : i \in DOMAIN f}

\* set([item.strip().lower() for item in user_input.split(',')])
ParseUserIngredients(text) == {Lower(Strip(p)) : p \in Range(Split(text))}

\* -------------------------------------------------------------- the assets
\* the values of the ingredients_list column (lower-case tokens): every use of
\* a list goes through set(), so one list per set of tokens
IngredientLists == {<<>>, <<<<"a">>>>, <<<<"b">>>>, <<<<"a">>, <<"b">>>>}

\* one row of recipes_df (recipes_cleaned.csv after ast.literal_eval)
RecipeRows == [recipe_name : {"recipe"}, ingredients_list : IngredientLists,
               rating : Ratings, recipe_complexity : Complexities]

Catalogs == UNION {[1..n -> RecipeRows] : n \in 0..MaxRecipes}

\* load_data: the parsed catalog, or None when the download or parse fails
load_data == [loaded : {TRUE}, rows : Catalogs] \cup
             {[loaded |-> FALSE, rows |-> <<>>]}

\* load_model: (model, model_columns), or (None, None) on failure
load_model == {"loaded", "None"}

\* ------------------------------------------------------ the handler's steps
\* the score of the deterministic formula:
\* 20*|common| - 50*|missing| + (50 if nothing is missing) + 2*rating
finalScore(pantry, row) ==
    LET ingredients == {row.ingredients_list[k] :
                           k \in 1..Len(row.ingredients_list)}
        common == {t \in ingredients : t \in pantry}
        missing == {t \in ingredients : t \notin pantry}
    IN  20 * Cardinality(common) - 50 * Cardinality(missing)
          + (IF missing = {} THEN 50 ELSE 0) + 2 * row.rating

\* variants of the candidate filter
IsCandidatePositiveScore(ui, row) == finalScore(ui, row) > 0

IsCandidateAlways(ui, row) == TRUE

IsCandidateSubset(ui, row) == Range(row.ingredients_list) \subseteq ui

\* user_ingredients.intersection(set(recipe['ingredients_list'])) is truthy
IsCandidate(ui, row) == ui \cap Range(row.ingredients_list) # {}

\* the loop over recipes_df.iterrows() and pd.DataFrame(candidate_recipes):
\* the admitted rows in catalog order, each carrying its index label
RECURSIVE CandidateRecipes(_, _, _)
CandidateRecipes(ui, rows, i) ==
    IF i > Len(rows) THEN <<>>
    ELSE (IF IsCandidate(ui, rows[i])
          THEN <<[index |-> i, recipe_name |-> rows[i].recipe_name,
                  ingredients_list |-> rows[i].ingredients_list,
                  rating |-> rows[i].rating,
                  recipe_complexity |-> rows[i].recipe_complexity]>>
          ELSE <<>>) \o CandidateRecipes(ui, rows, i + 1)

\* variant of calculate_features that divides by the number of missing
\* ingredients instead of the number of recipe ingredients
calculate_featuresByMissing(ui, row) ==
    LET recipe_ingredients == Range(row.ingredients_list)
        common_ingredients == ui \cap recipe_ingredients
    IN  [match_pct |-> <<Cardinality(common_ingredients),
                         Cardinality(recipe_ingredients \ ui)>>,
         pantry_util |-> <<Cardinality(common_ingredients), Cardinality(ui)>>,
         missing_count |-> Cardinality(recipe_ingredients)
                             - Cardinality(common_ingredients),
         recipe_complexity |-> row.recipe_complexity,
         rating |-> row.rating]

\* calculate_features: a quotient n / d is kept as the pair <<n, d>>
calculate_features(ui, row) ==
    LET recipe_ingredients == Range(row.ingredients_list)
        common_ingredients == ui \cap recipe_ingredients
    IN  [match_pct |-> <<Cardinality(common_ingredients),
                         Cardinality(recipe_ingredients)>>,
         pantry_util |-> <<Cardinality(common_ingredients), Cardinality(ui)>>,
         missing_count |-> Cardinality(recipe_ingredients)
                             - Cardinality(common_ingredients),
         recipe_complexity |-> row.recipe_complexity,
         rating |-> row.rating]

\* candidates_df.apply(calculate_features, axis=1)
FeaturesOf(ui, cands) ==
    [k \in 1..Len(cands) |-> calculate_features(ui, cands[k])]

\* a division by zero inside calculate_features raises ZeroDivisionError
Raises(features) ==
    \E k \in 1..Len(features) :
        features[k].match_pct[2] = 0 \/ features[k].pantry_util[2] = 0

\* model.predict(features_df): the trained regressor is a downloaded artefact,
\* so every vector of scores is a possible prediction
Predictions(features) == [1..Len(features) -> Scores]

\* candidates_df['predicted_score'] = predictions
WithScores(cands, predictions) ==
    [k \in 1..Len(cands) |->
        [index |-> cands[k].index, recipe_name |-> cands[k].recipe_name,
         ingredients_list |-> cands[k].ingredients_list,
         rating |-> cands[k].rating,
         recipe_complexity |-> cands[k].recipe_complexity,
         predicted_score |-> predictions[k]]]

SortOrders(n) ==
    {p \in [1..n -> 1..n] : \A i, j \in 1..n : i # j => p[i] # p[j]}

\* candidates_df.sort_values(by='predicted_score', ascending=False) with the
\* default kind='quicksort', which is not a stable sort: every arrangement
\* that is non-increasing in predicted_score is a possible result
SortValues(df) ==
    {[k \in 1..Len(df) |-> df[p[k]]] : p \in
        {q \in SortOrders(Len(df)) :
            \A k \in 1..(Len(df) - 1) :
                df[q[k]].predicted_score >= df[q[k + 1]].predicted_score}}

\* variant of the set difference with its operands swapped
MissingIngredientsSwapped(ui, row) == ui \ Range(row.ingredients_list)

\* recipe_ingredients - user_ingredients in the display loop
MissingIngredients(ui, row) == Range(row.ingredients_list) \ ui

\* sorted_recipes.head(5)
HeadRows(df, n) == SubSeq(df, 1, IF Len(df) < n THEN Len(df) ELSE n)

\* what the display loop renders for the top rows
DisplayOf(ui, sorted) ==
    LET top == HeadRows(sorted, TopK)
    IN  [k \in 1..Len(top) |->
            [index |-> top[k].index,
             recipe_name |-> top[k].recipe_name,
             match_quality |-> top[k].predicted_score,
             missing_ingredients |-> MissingIngredients(ui, top[k]),
             missing_metric |->
                 Cardinality(MissingIngredients(ui, top[k]))]]

\* ------------------------------------------------------------------- Init
Texts == UNION {[1..n -> Chars] : n \in 0..MaxLen}

\* the page before any click: assets loaded (or not), some text in the area
Init ==
    /\ recipes_df \in load_data
    /\ model \in load_model
    /\ user_input \in Texts
    /\ button = FALSE
    /\ messages = {}
    /\ user_ingredients = {}
    /\ candidates_df = <<>>
    /\ features_df = <<>>
    /\ sorted_recipes = <<>>
    /\ display = <<>>

\* ---------------------------------------------------------------- actions
\* the user edits the text area; the script reruns with the button not
\* pressed, so nothing below the button is rendered
EnterText ==
    /\ \/ \E c \in Chars : /\ Len(user_input) < MaxLen
                           /\ user_input' = Append(user_input, c)
       \/ /\ user_input # <<>>
          /\ user_input' = <<>>
    /\ button' = FALSE
    /\ messages' = {}
    /\ user_ingredients' = {}
    /\ candidates_df' = <<>>
    /\ features_df' = <<>>
    /\ sorted_recipes' = <<>>
    /\ display' = <<>>
    /\ UNCHANGED <<recipes_df, model>>

\* the results of one run of the code under `if st.button("Find Recipes!")`
Outcome(msgs, ui, cands, feats, sorted) ==
    /\ messages' = msgs
    /\ user_ingredients' = ui
    /\ candidates_df' = cands
    /\ features_df' = feats
    /\ sorted_recipes' = sorted
    /\ display' = DisplayOf(ui, sorted)

\* variant of the handler that filters the shared frame in place
FilterCatalogInPlace ==
    recipes_df' = [recipes_df EXCEPT !.rows =
        SelectSeq(recipes_df.rows,
                  LAMBDA r : IsCandidate(ParseUserIngredients(user_input), r))]

\* the handler only reads the catalog: iterrows() hands out copies of the rows,
\* pd.DataFrame(candidate_recipes) is a new frame, and predicted_score is a
\* column of that new frame
ReadOnlyCatalog == recipes_df' = recipes_df

\* a click on "Find Recipes!"
FindRecipes ==
    /\ button' = TRUE
    /\ ReadOnlyCatalog
    /\ UNCHANGED <<model, user_input>>
    /\ IF ~recipes_df.loaded \/ model = "None"
       THEN Outcome({"load_error"}, {}, <<>>, <<>>, <<>>)
       ELSE IF Strip(user_input) = <<>>
       THEN Outcome({"enter_ingredients"}, {}, <<>>, <<>>, <<>>)
       ELSE LET ui == ParseUserIngredients(user_input)
                cands == CandidateRecipes(ui, recipes_df.rows, 1)
                feats == FeaturesOf(ui, cands)
            IN  IF cands = <<>>
                THEN Outcome({"searching", "no_match"}, ui, <<>>, <<>>, <<>>)
                ELSE IF Raises(feats)
                THEN Outcome({"searching", "ZeroDivisionError"},
                             ui, cands, feats, <<>>)
                ELSE \E predictions \in Predictions(feats) :
                     \E sorted \in SortValues(WithScores(cands, predictions)) :
                         Outcome({"searching", "found"}, ui,
                                 WithScores(cands, predictions), feats, sorted)

Next == EnterText \/ FindRecipes

Spec == Init /\ [][Next]_vars

\* ----------------------------------------------------------- the claims
\* the ranking steps (parse, filter, ...) were entered by the last click
Ran == button /\ "searching" \in messages

AssetsLoaded == recipes_df.loaded /\ model = "loaded"

\* the pantry of the written contract: as parsed, empty pieces discarded
parsePantry(text) ==
    {t \in {Lower(Strip(p)) : p \in Range(Split(text))} : Len(t) > 0}

CatalogIndices == 1..Len(recipes_df.rows)
CandidateIndices == {candidates_df[k].index : k \in 1..Len(candidates_df)}
OutputIndices == {sorted_recipes[k].index : k \in 1..Len(sorted_recipes)}

Shares(pantry, row) ==
    \E k \in 1..Len(row.ingredients_list) : row.ingredients_list[k] \in pantry

\* the parsed pantry holds usable tokens only
CleanPantry == user_ingredients = parsePantry(user_input)

C2_StableDescending ==
    \A j, k \in 1..Len(sorted_recipes) :
        j < k =>
            /\ sorted_recipes[j].predicted_score
                   >= sorted_recipes[k].predicted_score
            /\ (sorted_recipes[j].predicted_score
                    = sorted_recipes[k].predicted_score)
                   => sorted_recipes[j].index < sorted_recipes[k].index

\* C3: the pantry is exactly the set of trimmed, lower-cased pieces with the
\* empty pieces discarded; the empty token is never a member.
C3_PantryDiscardsEmptyPieces ==
    Ran => /\ user_ingredients = parsePantry(user_input)
           /\ <<>> \notin user_ingredients

\* C4: a click on a text whose parsed pantry is empty ends in the
\* input-validation outcome and the ranking steps are not executed.
C4_EmptyPantryRejected ==
    (button /\ AssetsLoaded /\ parsePantry(user_input) = {})
        => ("enter_ingredients" \in messages /\ ~Ran)

\* the row of features_df that belongs to the candidate with index label i
FeatureOf(i) ==
    features_df[CHOOSE k \in 1..Len(candidates_df) : candidates_df[k].index = i]

\* C5: for every recipe in the output the reported missing set is a subset of
\* the recipe's ingredients, shares nothing with the pantry, and the reported
\* missing count (the metric and the missing_count feature) is its size.
C5_MissingSubset ==
    \A k \in 1..Len(display) :
        LET d == display[k]
            ingredients == {recipes_df.rows[d.index].ingredients_list[n] :
                n \in 1..Len(recipes_df.rows[d.index].ingredients_list)}
        IN  /\ d.missing_ingredients \subseteq ingredients
            /\ d.missing_ingredients \cap user_ingredients = {}
            /\ d.missing_metric = Cardinality(d.missing_ingredients)
            /\ FeatureOf(d.index).missing_count
                   = Cardinality(d.missing_ingredients)

\* C5 witness: a displayed recipe with something missing, and one with
\* nothing missing
C5_Witness ==
    /\ \E k \in 1..Len(display) : display[k].missing_ingredients # {}
    /\ \E k \in 1..Len(display) : display[k].missing_ingredients = {}

\* C6: a recipe with a non-empty ingredient set that shares no ingredient with
\* the pantry never appears in the ranked output, whatever its rating.
C6_NoOverlapNeverRanked ==
    \A k \in 1..Len(sorted_recipes) :
        LET row == recipes_df.rows[sorted_recipes[k].index]
        IN  row.ingredients_list # <<>> => Shares(user_ingredients, row)

\* C6 witness: a ranking that left out a recipe with ingredients, none of
\* them in the pantry, and the highest rating
C6_Witness ==
    /\ Ran /\ sorted_recipes # <<>>
    /\ \E i \in CatalogIndices :
           /\ recipes_df.rows[i].ingredients_list # <<>>
           /\ ~Shares(user_ingredients, recipes_df.rows[i])
           /\ recipes_df.rows[i].rating = MaxRating
           /\ i \notin OutputIndices

C8_OutcomesKeptApart ==
    (button /\ AssetsLoaded) =>
        /\ ("enter_ingredients" \in messages) => ~Ran
        /\ ("no_match" \in messages)
               <=> (Ran /\ parsePantry(user_input) # {}
                        /\ sorted_recipes = <<>>)
        /\ sorted_recipes # <<>>
               => messages \cap {"enter_ingredients", "no_match"} = {}
        /\ Cardinality(messages \cap
                          {"enter_ingredients", "no_match", "found"}) = 1

\* C9: no ranking request changes the catalog: no row is added, removed,
\* reordered or modified, and scores are written to the per-request frame only.
C9_CatalogUnchanged == [][recipes_df' = recipes_df]_vars

\* C9 witness: a request that computed scores, over a catalog with two rows
C9_Witness ==
    /\ Ran /\ Len(recipes_df.rows) = 2
    /\ \E k \in 1..Len(candidates_df) : candidates_df[k].predicted_score = 90

\* C10: whenever calculate_features runs, both of its divisors are at least 1,
\* so no click ends in a division by zero.
C10_DivisorsPositive ==
    /\ \A k \in 1..Len(features_df) :
           /\ features_df[k].match_pct[2] >= 1
           /\ features_df[k].pantry_util[2] >= 1
    /\ "ZeroDivisionError" \notin messages

\* C10 witness: features were computed for a candidate from a pantry that
\* holds the empty token, over a catalog with an ingredient-less recipe
C10_Witness ==
    /\ features_df # <<>>
    /\ <<>> \in user_ingredients
    /\ \E i \in CatalogIndices : recipes_df.rows[i].ingredients_list = <<>>

====
